---- MODULE Spec2Model ----
(***************************************************************************)
(* A model of src/CordovaProject.ts: the CordovaProject facade over the    *)
(* `cordova` command line tool.                                            *)
(*                                                                         *)
(* JavaScript strings are TLC strings (Len, \o and SubSeq act on them), so *)
(* command lines and tool output are built, split and searched character   *)
(* by character, as the code does.  An optional parameter is a sequence:   *)
(* <<>> is `undefined`, <<v>> is the value v.                              *)
(*                                                                         *)
(* The specifications of the module:                                       *)
(*   SpecCmd        command construction and the spawn request (C5, C9)    *)
(*   SpecInfo       the parser of getInfo (C6)                             *)
(*   SpecPlugins    the parser of getPlugins (C7)                          *)
(*   SpecPlatforms  the parser of getPlatforms (C8)                        *)
(*   Spec           promises and child-process events (C1-C4, C10)         *)
(***************************************************************************)
EXTENDS Integers, Sequences, FiniteSets, TLC

VARIABLES
    handlePath,   \* CordovaProject._path of the handle the calls are made on
    hostWindows,  \* what isWindows() answers on this host
    lastCall,     \* the latest method call on the handle: its name and arguments
    spawned,      \* the latest request handed to child_process.spawn
    parseOp,      \* which query's `then` callback parses the output
    srcLines,     \* what the tool printed, line by line
    toolOutput,   \* the text wrapStringAction resolved with
    parsed,       \* the value the query's promise is fulfilled with
    calls         \* the calls in flight: promise, child process, buffers

cmdVars   == <<handlePath, hostWindows, lastCall, spawned>>
parseVars == <<parseOp, srcLines, toolOutput, parsed>>
procVars  == <<calls>>
vars      == <<handlePath, hostWindows, lastCall, spawned,
               parseOp, srcLines, toolOutput, parsed, calls>>

(***************************************************************************)
(* JavaScript values and string primitives                                 *)
(***************************************************************************)
Undefined == <<>>

Some(v) == <<v>>

\* JS truthiness of an optional boolean: undefined and false are falsy.
TruthyBool(o) == o = <<TRUE>>

\* JS truthiness of an optional string: undefined and '' are falsy.
TruthyStr(o) == o # <<>> /\ o[1] # ""

\* JS truthiness of an optional array or object: only undefined is falsy.
TruthyObj(o) == o # <<>>

CharAt(s, i) == SubSeq(s, i, i)

\* The least element of a non-empty set of integers.
FirstIn(S) == CHOOSE i \in S : \A j \in S : i <= j

\* The characters the regular expression class \s matches.
IsSpace(ch) == ch \in {" ", "\t", "\n", "\r"}

\* String.prototype.indexOf: the 0-based index of the first occurrence, or -1.
IndexOf(s, sub) ==
    LET hits == {i \in 0..(Len(s) - Len(sub)) : SubSeq(s, i + 1, i + Len(sub)) = sub}
    IN  IF hits = {} THEN -1 ELSE CHOOSE i \in hits : \A j \in hits : i <= j

\* The first index >= i of s that holds no whitespace, or Len(s)+1.
RECURSIVE SkipSpace(_, _)
SkipSpace(s, i) ==
    IF i > Len(s) \/ ~IsSpace(CharAt(s, i)) THEN i ELSE SkipSpace(s, i + 1)

\* The elements of a finite set of integers in ascending order.
SortedSeq(S) ==
    [k \in 1..Cardinality(S) |-> CHOOSE i \in S : Cardinality({j \in S : j < i}) = k - 1]

\* The piece of s that starts at index i and runs up to the next separator
\* (seps holds the indices of the separator characters) or to the end of s.
PieceFrom(s, i, seps) ==
    LET stops == {j \in seps : j >= i}
    IN  SubSeq(s, i, (IF stops = {} THEN Len(s) + 1 ELSE FirstIn(stops)) - 1)

\* String.prototype.split(/\s+/g): the pieces between maximal whitespace
\* runs; a leading or trailing run leaves an empty piece at that end.
SplitWs(s) ==
    LET seps == {j \in 1..Len(s) : IsSpace(CharAt(s, j))}
        starts == {1} \cup {j + 1 : j \in {k \in seps : (k + 1) \notin seps}}
        order == SortedSeq(starts)
    IN  [k \in 1..Len(order) |-> PieceFrom(s, order[k], seps)]

\* String.prototype.split(sep) for a one-character separator: one piece
\* before the first separator and one after each separator.
SplitChar(s, sep) ==
    LET seps == {j \in 1..Len(s) : CharAt(s, j) = sep}
        starts == {1} \cup {j + 1 : j \in seps}
        order == SortedSeq(starts)
    IN  [k \in 1..Len(order) |-> PieceFrom(s, order[k], seps)]

\* Array.prototype.join(sep).
RECURSIVE Join(_, _)
Join(arr, sep) ==
    IF Len(arr) = 0 THEN ""
    ELSE IF Len(arr) = 1 THEN arr[1]
    ELSE arr[1] \o sep \o Join(Tail(arr), sep)

\* String.prototype.trim.
RECURSIVE TrimRight(_)
TrimRight(s) ==
    IF Len(s) > 0 /\ IsSpace(CharAt(s, Len(s)))
    THEN TrimRight(SubSeq(s, 1, Len(s) - 1)) ELSE s

Trim(s) == TrimRight(SubSeq(s, SkipSpace(s, 1), Len(s)))

\* process.cwd()
ProcessCwd == "/home/dev"

(***************************************************************************)
(* Spawning: safeSpawn, and the head of wrapVoidAction / wrapStringAction  *)
(***************************************************************************)
NoSpawn == [file |-> "", args |-> <<>>, cwd |-> ""]

\* safeSpawn(commandLine, arguments, env)
safeSpawn(windows, commandLine, arguments, cwd) ==
    IF windows
    THEN [file |-> "cmd", args |-> <<"/s", "/c", commandLine>> \o arguments, cwd |-> cwd]
    ELSE [file |-> commandLine, args |-> arguments, cwd |-> cwd]

\* var words = commandLine.split(/\s+/g); var command = words.shift();
\* spawnOpts.cwd = workingDirectory || process.cwd(); safeSpawn(command, words, ..)
wrapActionSpawn(windows, commandLine, workingDirectory) ==
    LET words == SplitWs(commandLine)
    IN  safeSpawn(windows, Head(words), Tail(words),
                  IF workingDirectory # "" THEN workingDirectory ELSE ProcessCwd)

(***************************************************************************)
(* Command construction                                                    *)
(***************************************************************************)
\* platformCommand(commandName, platform?, args?)
platformCommand(commandName, platform, args) ==
    LET c0 == "cordova " \o commandName \o " "
        c1 == IF TruthyStr(platform) THEN c0 \o platform[1] ELSE c0
    IN  IF TruthyObj(args) THEN c1 \o " " \o Join(args[1], " ") ELSE c1

\* the command line of addPlugin(searchSpec, options?)
addPluginCmd(windows, searchSpec, options) ==
    LET c0 == "cordova plugin add " \o searchSpec
        o  == options[1]
        c1 == IF TruthyObj(o.searchPaths)
              THEN c0 \o " --searchpath \"" \o
                   Join(o.searchPaths[1], IF windows THEN ";" ELSE ":")
              ELSE c0
        c2 == IF TruthyBool(o.noRegistry) THEN c1 \o " --noregistry" ELSE c1
        c3 == IF TruthyBool(o.link) THEN c2 \o " --link" ELSE c2
        c4 == IF TruthyBool(o.save) THEN c3 \o " --save" ELSE c3
        c5 == IF TruthyBool(o.shrinkwrap) THEN c4 \o " --shrinkwrap" ELSE c4
        c6 == IF TruthyBool(o.experimentalBrowserify) THEN c5 \o " --browserify" ELSE c5
    IN  IF TruthyObj(options) THEN c6 ELSE c0

\* the command line of removePlugin(pluginId, options?)
removePluginCmd(pluginId, options) ==
    LET c0 == "cordova plugin remove " \o pluginId
    IN  IF TruthyObj(options) /\ TruthyBool(options[1].save)
        THEN c0 \o " --save" ELSE c0

\* addPlatform with the appends of --save and --link exchanged.
addPlatformCmdLinkBeforeSave(searchSpec, options) ==
    LET c0 == "cordova platform add " \o searchSpec
        o  == options[1]
        c1 == IF TruthyBool(o.useGit) THEN c0 \o " --usegit" ELSE c0
        c2 == IF TruthyBool(o.link) THEN c1 \o " --link" ELSE c1
        c3 == IF TruthyBool(o.save) THEN c2 \o " --save" ELSE c2
    IN  IF TruthyObj(options) THEN c3 ELSE c0

\* the command line of addPlatform(searchSpec, options?)
addPlatformCmd(searchSpec, options) ==
    LET c0 == "cordova platform add " \o searchSpec
        o  == options[1]
        c1 == IF TruthyBool(o.useGit) THEN c0 \o " --usegit" ELSE c0
        c2 == IF TruthyBool(o.save) THEN c1 \o " --save" ELSE c1
        c3 == IF TruthyBool(o.link) THEN c2 \o " --link" ELSE c2
    IN  IF TruthyObj(options) THEN c3 ELSE c0

\* the command line of removePlatform(name, options?)
removePlatformCmd(name, options) ==
    LET c0 == "cordova platform remove " \o name
    IN  IF TruthyObj(options) /\ TruthyBool(options[1].save)
        THEN c0 \o " --save" ELSE c0

\* the command line of update(name?, options?)
updateCmd(name, options) ==
    LET c0 == "cordova platform update"
        c1 == IF TruthyStr(name) THEN c0 \o " " \o name[1] ELSE c0
        o  == options[1]
        c2 == IF TruthyBool(o.useGit) THEN c1 \o " --usegit" ELSE c1
        c3 == IF TruthyBool(o.save) THEN c2 \o " --save" ELSE c2
    IN  IF TruthyObj(options) THEN c3 ELSE c1

(***************************************************************************)
(* SpecCmd: every command method of one handle, called with every          *)
(* combination of its arguments; `spawned` is what child_process.spawn     *)
(* receives                                                                *)
(***************************************************************************)
MaxArgs == 2

MaxSearchPaths == 2

HandlePaths == {"/proj/app", "demo"}

PlatformNames == {"ios"}

ArgWords == {"--device", "--release"}

PluginSpecs == {"cordova-plugin-camera"}

SearchPathWords == {"plugins", "/opt/p"}

SeqsUpTo(S, n) == UNION {[1..k -> S] : k \in 0..n}

OptBool == {Undefined, Some(FALSE), Some(TRUE)}

OptPlatform == {Undefined} \cup {Some(p) : p \in PlatformNames}

OptArgs == {Undefined} \cup {Some(a) : a \in SeqsUpTo(ArgWords, MaxArgs)}

OptSearchPaths == {Undefined} \cup {Some(a) : a \in SeqsUpTo(SearchPathWords, MaxSearchPaths)}

PluginAddOptions ==
    [searchPaths : OptSearchPaths, noRegistry : OptBool, link : OptBool,
     save : OptBool, shrinkwrap : OptBool, experimentalBrowserify : OptBool]

ComponentRemoveOptions == [save : OptBool]

PlatformAddOptions == [useGit : OptBool, save : OptBool, link : OptBool]

Optional(S) == {Undefined} \cup {Some(o) : o \in S}

NoCall == [op |-> "none", target |-> Undefined, platform |-> Undefined,
           args |-> Undefined, options |-> Undefined]

ParseIdle ==
    /\ parseOp = "none"
    /\ srcLines = <<>>
    /\ toolOutput = ""
    /\ parsed = <<>>

\* No call was made: the specifications of the pure parts make none.
ProcIdle == calls = <<>>

InitCmd ==
    /\ handlePath \in HandlePaths
    /\ hostWindows \in BOOLEAN
    /\ lastCall = NoCall
    /\ spawned = NoSpawn
    /\ ParseIdle
    /\ ProcIdle

\* CordovaProject.wrapVoidAction(cmd, this._path), up to the spawn.
VoidCallSpawn(cmd) == wrapActionSpawn(hostWindows, cmd, handlePath)

PlatformCall(verb, platform, args) ==
    [NoCall EXCEPT !.op = verb, !.platform = platform, !.args = args]

\* A handle holds nothing but _path and no call changes it, so a behaviour
\* makes one call: every later call starts from the same handle.
prepare ==
    \E p \in OptPlatform, a \in OptArgs :
        /\ lastCall = NoCall
        /\ lastCall' = PlatformCall("prepare", p, a)
        /\ spawned' = VoidCallSpawn(platformCommand("prepare", p, a))
        /\ UNCHANGED <<handlePath, hostWindows, parseVars, procVars>>

compile ==
    \E p \in OptPlatform, a \in OptArgs :
        /\ lastCall = NoCall
        /\ lastCall' = PlatformCall("compile", p, a)
        /\ spawned' = VoidCallSpawn(platformCommand("compile", p, a))
        /\ UNCHANGED <<handlePath, hostWindows, parseVars, procVars>>

build ==
    \E p \in OptPlatform, a \in OptArgs :
        /\ lastCall = NoCall
        /\ lastCall' = PlatformCall("build", p, a)
        /\ spawned' = VoidCallSpawn(platformCommand("build", p, a))
        /\ UNCHANGED <<handlePath, hostWindows, parseVars, procVars>>

run ==
    \E p \in OptPlatform, a \in OptArgs :
        /\ lastCall = NoCall
        /\ lastCall' = PlatformCall("run", p, a)
        /\ spawned' = VoidCallSpawn(platformCommand("run", p, a))
        /\ UNCHANGED <<handlePath, hostWindows, parseVars, procVars>>

emulate ==
    \E p \in OptPlatform, a \in OptArgs :
        /\ lastCall = NoCall
        /\ lastCall' = PlatformCall("emulate", p, a)
        /\ spawned' = VoidCallSpawn(platformCommand("emulate", p, a))
        /\ UNCHANGED <<handlePath, hostWindows, parseVars, procVars>>

serve ==
    /\ lastCall = NoCall
    /\ lastCall' = [NoCall EXCEPT !.op = "serve"]
    /\ spawned' = VoidCallSpawn("cordova serve")
    /\ UNCHANGED <<handlePath, hostWindows, parseVars, procVars>>

addPlugin ==
    \E s \in PluginSpecs, o \in Optional(PluginAddOptions) :
        /\ lastCall = NoCall
        /\ lastCall' = [NoCall EXCEPT !.op = "addPlugin", !.target = Some(s), !.options = o]
        /\ spawned' = VoidCallSpawn(addPluginCmd(hostWindows, s, o))
        /\ UNCHANGED <<handlePath, hostWindows, parseVars, procVars>>

removePlugin ==
    \E s \in PluginSpecs, o \in Optional(ComponentRemoveOptions) :
        /\ lastCall = NoCall
        /\ lastCall' = [NoCall EXCEPT !.op = "removePlugin", !.target = Some(s),
                                      !.options = o]
        /\ spawned' = VoidCallSpawn(removePluginCmd(s, o))
        /\ UNCHANGED <<handlePath, hostWindows, parseVars, procVars>>

addPlatform ==
    \E s \in PlatformNames, o \in Optional(PlatformAddOptions) :
        /\ lastCall = NoCall
        /\ lastCall' = [NoCall EXCEPT !.op = "addPlatform", !.target = Some(s),
                                      !.options = o]
        /\ spawned' = VoidCallSpawn(addPlatformCmd(s, o))
        /\ UNCHANGED <<handlePath, hostWindows, parseVars, procVars>>

removePlatform ==
    \E s \in PlatformNames, o \in Optional(ComponentRemoveOptions) :
        /\ lastCall = NoCall
        /\ lastCall' = [NoCall EXCEPT !.op = "removePlatform", !.target = Some(s),
                                      !.options = o]
        /\ spawned' = VoidCallSpawn(removePlatformCmd(s, o))
        /\ UNCHANGED <<handlePath, hostWindows, parseVars, procVars>>

update ==
    \E n \in OptPlatform, o \in Optional(PlatformAddOptions) :
        /\ lastCall = NoCall
        /\ lastCall' = [NoCall EXCEPT !.op = "update", !.target = n, !.options = o]
        /\ spawned' = VoidCallSpawn(updateCmd(n, o))
        /\ UNCHANGED <<handlePath, hostWindows, parseVars, procVars>>

NextCmd ==
    \/ prepare
    \/ compile
    \/ build
    \/ run
    \/ emulate
    \/ serve
    \/ addPlugin
    \/ removePlugin
    \/ addPlatform
    \/ removePlatform
    \/ update

SpecCmd == InitCmd /\ [][NextCmd]_vars

\* The arguments the cordova tool itself receives: on a Windows host they
\* follow `/s /c cordova` in the arguments of cmd.
ToolArgs == IF hostWindows THEN SubSeq(spawned.args, 4, Len(spawned.args)) ELSE spawned.args

ToolName == IF hostWindows THEN spawned.args[3] ELSE spawned.file

IsFlag(t) == Len(t) >= 2 /\ SubSeq(t, 1, 2) = "--"

FlagsOf(args) == SelectSeq(args, IsFlag)

\* The options each method supports with the flag of each, in the order the
\* claim fixes.
FlagTable(op) ==
    CASE op = "addPlugin" ->
           << <<"searchPaths", "--searchpath">>, <<"noRegistry", "--noregistry">>,
              <<"link", "--link">>, <<"save", "--save">>,
              <<"shrinkwrap", "--shrinkwrap">>,
              <<"experimentalBrowserify", "--browserify">> >>
      [] op = "addPlatform" ->
           << <<"useGit", "--usegit">>, <<"save", "--save">>, <<"link", "--link">> >>
      [] op = "update" -> << <<"useGit", "--usegit">>, <<"save", "--save">> >>
      [] OTHER -> << <<"save", "--save">> >>

OptionTruthy(o, field) ==
    IF field = "searchPaths" THEN TruthyObj(o[field]) ELSE TruthyBool(o[field])

ExpectedFlags(call) ==
    LET table == FlagTable(call.op)
        keep(e) == OptionTruthy(call.options[1], e[1])
        kept == SelectSeq(table, keep)
    IN  IF call.options = Undefined THEN <<>>
        ELSE [i \in 1..Len(kept) |-> kept[i][2]]

FlagOps == {"addPlugin", "removePlugin", "addPlatform", "removePlatform", "update"}

PlatformVerbs == {"prepare", "compile", "build", "run", "emulate"}

\* C5: for addPlugin, addPlatform, removePlugin, removePlatform and update
\* the flags among the arguments handed to the tool are exactly the flags
\* of the truthy options, each once, in the fixed order of the method.
C5_FlagsExactlyTruthyOptions ==
    lastCall.op \in FlagOps =>
        /\ ToolName = "cordova"
        /\ FlagsOf(ToolArgs) = ExpectedFlags(lastCall)

\* C5 witness: addPlugin was called with every option truthy and all six
\* flags were handed to the tool.
C5_Witness ==
    /\ lastCall.op = "addPlugin"
    /\ lastCall.options # Undefined
    /\ \A f \in {"searchPaths", "noRegistry", "link", "save", "shrinkwrap",
                 "experimentalBrowserify"} : OptionTruthy(lastCall.options[1], f)
    /\ Len(FlagsOf(ToolArgs)) = 6

\* C9: prepare/compile/build/run/emulate hand the tool exactly the verb,
\* the platform if one was given, then each extra argument in order (so no
\* empty-string argument), and spawn it in the handle's directory.
C9_PlatformArgsExact ==
    lastCall.op \in PlatformVerbs =>
        /\ ToolArgs = <<lastCall.op>>
                      \o (IF lastCall.platform = Undefined THEN <<>>
                          ELSE <<lastCall.platform[1]>>)
                      \o (IF lastCall.args = Undefined THEN <<>> ELSE lastCall.args[1])
        /\ spawned.cwd = handlePath

(***************************************************************************)
(* The queries: each runs wrapStringAction and parses the text it resolves *)
(* with in a `then` callback.  `srcLines` is what the tool printed and     *)
(* `toolOutput` the text that reaches the callback.                        *)
(***************************************************************************)
\* The parsers read neither the handle's path nor the host.
CmdIdle ==
    /\ handlePath = "/proj/app"
    /\ hostWindows = FALSE
    /\ lastCall = NoCall
    /\ spawned = NoSpawn

NotParsed == [done |-> FALSE]

\* The tool prints its lines separated by '\n'; a final '\n' shows as a last
\* empty line.
PrintLines(lines) == Join(lines, "\n")

\* lines[i].indexOf(sub) > -1
Includes(line, sub) == IndexOf(line, sub) > -1

\* lines[i].match(/\S/g) is truthy
MatchesNonSpace(line) == \E i \in 1..Len(line) : ~IsSpace(CharAt(line, i))

\* getInfo, first loop: `xml += lines[i]` up to and including the first line
\* that includes '</widget>'; answers the index the loop stops at (0-based)
\* and the text gathered.
RECURSIVE infoPass1(_, _, _)
infoPass1(lines, i, xml) ==
    IF i >= Len(lines) THEN [i |-> i, xml |-> xml]
    ELSE LET x == xml \o lines[i + 1]
         IN  IF Includes(lines[i + 1], "</widget>")
             THEN [i |-> i, xml |-> x]
             ELSE infoPass1(lines, i + 1, x)

\* getInfo, second loop, resumed at the index the first loop stopped at.
RECURSIVE infoPass2(_, _, _, _)
infoPass2(lines, i, lookingForPluginsColon, plugins) ==
    IF i >= Len(lines) THEN plugins
    ELSE IF lookingForPluginsColon
         THEN infoPass2(lines, i + 1, ~Includes(lines[i + 1], "Plugins:"), plugins)
         ELSE infoPass2(lines, i + 1, FALSE,
                        IF MatchesNonSpace(lines[i + 1])
                        THEN Append(plugins, lines[i + 1]) ELSE plugins)

\* getInfo with the second loop started on the line after '</widget>'.
getInfoParseAfterWidgetLine(result) ==
    LET lines == SplitChar(result, "\n")
        p1 == infoPass1(lines, 0, "")
    IN  [done |-> TRUE, config |-> p1.xml,
         pluginNames |-> infoPass2(lines, p1.i + 1, TRUE, <<>>)]

\* the `then` callback of getInfo
getInfoParse(result) ==
    LET lines == SplitChar(result, "\n")
        p1 == infoPass1(lines, 0, "")
    IN  [done |-> TRUE, config |-> p1.xml,
         pluginNames |-> infoPass2(lines, p1.i, TRUE, <<>>)]

MaxInfoLines == 4

InfoLines == {"<widget id=\"a\">", "</widget>", "Plugins:", "plugin-a", "plugin-b",
              " \t", "", "</widget>Plugins:"}

NonEmptySeqs(S, n) == UNION {[1..k -> S] : k \in 1..n}

InitInfo ==
    /\ CmdIdle
    /\ ProcIdle
    /\ parseOp = "getInfo"
    /\ srcLines \in NonEmptySeqs(InfoLines, MaxInfoLines)
    /\ toolOutput = PrintLines(srcLines)
    /\ parsed = NotParsed

getInfo ==
    /\ parseOp = "getInfo"
    /\ ~parsed.done
    /\ parsed' = getInfoParse(toolOutput)
    /\ UNCHANGED <<cmdVars, procVars, parseOp, srcLines, toolOutput>>

NextInfo == getInfo

SpecInfo == InitInfo /\ [][NextInfo]_vars

Contains(line, sub) ==
    \E i \in 1..(Len(line) - Len(sub) + 1) : SubSeq(line, i, i + Len(sub) - 1) = sub

Blank(line) == \A i \in 1..Len(line) : CharAt(line, i) \in {" ", "\t", "\r"}

WidgetLines == {k \in 1..Len(srcLines) : Contains(srcLines[k], "</widget>")}

PluginsLinesFrom(w) == {k \in w..Len(srcLines) : Contains(srcLines[k], "Plugins:")}

NotBlank(line) == ~Blank(line)

\* C6: when a printed line contains '</widget>' and a later one 'Plugins:',
\* config is the lines up to and including the first '</widget>' line and
\* pluginNames is exactly the non-blank lines after the first 'Plugins:'
\* line found at or after the '</widget>' line, in their order.
C6_InfoSections ==
    (/\ parsed.done
     /\ parseOp = "getInfo"
     /\ \E w \in WidgetLines : \E p \in PluginsLinesFrom(w) : w < p)
    => LET w == FirstIn(WidgetLines)
           p == FirstIn(PluginsLinesFrom(w))
       IN  /\ parsed.config = Join(SubSeq(srcLines, 1, w), "")
           /\ parsed.pluginNames =
                  SelectSeq(SubSeq(srcLines, p + 1, Len(srcLines)), NotBlank)

\* C6 witness: two plugin names were read, in order, from output that ends
\* with a newline and has a blank line among the names.
C6_Witness ==
    /\ parsed.done
    /\ parseOp = "getInfo"
    /\ Len(srcLines) = MaxInfoLines
    /\ srcLines[1] = "</widget>"
    /\ srcLines[2] = "Plugins:"
    /\ srcLines[4] = ""
    /\ parsed.pluginNames = <<"plugin-a">>
    /\ parsed.config = "</widget>"

(***************************************************************************)
(* getPlugins                                                              *)
(***************************************************************************)
\* The characters `.` matches: all but the line terminators.
IsDot(ch) == ch \notin {"\n", "\r"}

AllDot(s, lo, hi) == \A i \in lo..hi : IsDot(CharAt(s, i))

\* The match of /(.+?) (.+) "(.+?)"$/, with a greedy second group.
pluginMatchGreedyVersion(item) ==
    LET n == Len(item)
        ends == {b \in 3..(n - 3) :
                    /\ SubSeq(item, b, b + 1) = " \""
                    /\ CharAt(item, n) = "\""
                    /\ AllDot(item, b + 2, n - 1)}
        Bs(a) == {b \in ends : b >= a + 2 /\ AllDot(item, a + 1, b - 1)}
        spaces == {a \in 2..n : CharAt(item, a) = " " /\ Bs(a) # {}}
        As(st) == {a \in spaces : a > st /\ AllDot(item, st, a - 1)}
        starts == {st \in 1..n : As(st) # {}}
    IN  IF starts = {} THEN <<>>
        ELSE LET st == FirstIn(starts)
                 a == FirstIn(As(st))
                 b == CHOOSE x \in Bs(a) : \A y \in Bs(a) : y <= x
             IN  <<[id |-> SubSeq(item, st, a - 1),
                    version |-> SubSeq(item, a + 1, b - 1),
                    name |-> SubSeq(item, b + 2, n - 1)]>>

\* item.match(/(.+?) (.+?) "(.+?)"$/): null (<<>>) or the three groups.  The
\* engine takes the leftmost start s; from it the lazy first group ends at
\* the first space (index a) after which the rest can still match, the lazy
\* second group at the first ` "` (index b) after which a non-empty third
\* group runs to a closing quote that is the last character of the item.
pluginMatch(item) ==
    LET n == Len(item)
        ends == {b \in 3..(n - 3) :
                    /\ SubSeq(item, b, b + 1) = " \""
                    /\ CharAt(item, n) = "\""
                    /\ AllDot(item, b + 2, n - 1)}
        Bs(a) == {b \in ends : b >= a + 2 /\ AllDot(item, a + 1, b - 1)}
        spaces == {a \in 2..n : CharAt(item, a) = " " /\ Bs(a) # {}}
        As(st) == {a \in spaces : a > st /\ AllDot(item, st, a - 1)}
        starts == {st \in 1..n : As(st) # {}}
    IN  IF starts = {} THEN <<>>
        ELSE LET st == FirstIn(starts)
                 a == FirstIn(As(st))
                 b == FirstIn(Bs(a))
             IN  <<[id |-> SubSeq(item, st, a - 1),
                    version |-> SubSeq(item, a + 1, b - 1),
                    name |-> SubSeq(item, b + 2, n - 1)]>>

\* lines.forEach: push a record for each line the expression matches
RECURSIVE pluginsForEach(_, _)
pluginsForEach(lines, plugins) ==
    IF lines = <<>> THEN plugins
    ELSE pluginsForEach(Tail(lines), plugins \o pluginMatch(Head(lines)))

\* the `then` callback of getPlugins
getPluginsParse(result) ==
    [done |-> TRUE, plugins |-> pluginsForEach(SplitChar(result, "\n"), <<>>)]

MaxPluginLines == 3

\* a line of the form <id> <version> "<name>"
FormatPlugin(r) == r.id \o " " \o r.version \o " \"" \o r.name \o "\""

PluginIds == {"cordova-plugin-camera", "org.apache.file"}

PluginVersions == {"2.1.0"}

PluginTitles == {"File Transfer", "The \"Q\" one"}

OtherPluginLines ==
    {"No plugins added.", "",
     "a 1 \"N\"\r", " lead 1 \"N\"", "x a 1.0 \"N\"", "a  \"N\"",
     "a 1 \"\"", "\"N\""}

\* What the tool may print on a line: a plugin (kind "plugin", printed in
\* the form), or other text.
PluginEntries ==
    {[kind |-> "plugin", id |-> i, version |-> v, name |-> t,
      text |-> FormatPlugin([id |-> i, version |-> v, name |-> t])] :
        i \in PluginIds, v \in PluginVersions, t \in PluginTitles}
    \cup {[kind |-> "text", id |-> "", version |-> "", name |-> "", text |-> t] :
            t \in OtherPluginLines}

TextOf(entries) == [k \in 1..Len(entries) |-> entries[k].text]

InitPlugins ==
    /\ CmdIdle
    /\ ProcIdle
    /\ parseOp = "getPlugins"
    /\ srcLines \in NonEmptySeqs(PluginEntries, MaxPluginLines)
    /\ toolOutput = PrintLines(TextOf(srcLines))
    /\ parsed = NotParsed

getPlugins ==
    /\ parseOp = "getPlugins"
    /\ ~parsed.done
    /\ parsed' = getPluginsParse(toolOutput)
    /\ UNCHANGED <<cmdVars, procVars, parseOp, srcLines, toolOutput>>

NextPlugins == getPlugins

SpecPlugins == InitPlugins /\ [][NextPlugins]_vars

\* The text is some non-empty id, a space, some non-empty version, a space
\* and a non-empty name in double quotes.
HasPluginForm(text) ==
    \E li \in 1..Len(text), lv \in 1..Len(text) :
        /\ li + lv + 5 <= Len(text)
        /\ CharAt(text, li + 1) = " "
        /\ text = FormatPlugin([id |-> SubSeq(text, 1, li),
                                version |-> SubSeq(text, li + 2, li + 1 + lv),
                                name |-> SubSeq(text, li + lv + 4, Len(text) - 1)])

MatchingEntries ==
    SortedSeq({k \in 1..Len(srcLines) :
                  srcLines[k].kind = "plugin" \/ HasPluginForm(srcLines[k].text)})

\* C7: getPlugins returns one record per printed line of the form
\* <id> <version> "<name>" and none for any other line, in the order of the
\* lines; the record of a printed plugin holds its id, version and name, and
\* the fields of any record spell its line.
C7_OneRecordPerPluginLine ==
    (parsed.done /\ parseOp = "getPlugins") =>
        /\ Len(parsed.plugins) = Len(MatchingEntries)
        /\ \A j \in 1..Len(MatchingEntries) :
              LET e == srcLines[MatchingEntries[j]]
              IN  /\ j <= Len(parsed.plugins)
                  /\ FormatPlugin(parsed.plugins[j]) = e.text
                  /\ e.kind = "plugin" =>
                         parsed.plugins[j] =
                             [id |-> e.id, version |-> e.version, name |-> e.name]

\* C7 witness: two plugins printed around a line that is no plugin were
\* read as two records, in order.
C7_Witness ==
    /\ parsed.done
    /\ parseOp = "getPlugins"
    /\ Len(srcLines) = 3
    /\ srcLines[1].kind = "plugin"
    /\ srcLines[2].text = "No plugins added."
    /\ srcLines[3].kind = "plugin"
    /\ srcLines[3].name = "File Transfer"
    /\ srcLines[1].id # srcLines[3].id
    /\ Len(parsed.plugins) = 2
    /\ parsed.plugins[2].name = "File Transfer"

(***************************************************************************)
(* getPlatforms                                                            *)
(***************************************************************************)
\* platformPair.match(/(.+?) (.+?)$/): null (<<>>) or the two groups: from
\* the leftmost start the lazy first group ends at the first space with at
\* least one character after it, and the second group runs to the end.
platformMatch(platformPair) ==
    LET n == Len(platformPair)
        spaces == {a \in 2..(n - 1) :
                      CharAt(platformPair, a) = " " /\ AllDot(platformPair, a + 1, n)}
        As(st) == {a \in spaces : a > st /\ AllDot(platformPair, st, a - 1)}
        starts == {st \in 1..n : As(st) # {}}
    IN  IF starts = {} THEN <<>>
        ELSE LET st == FirstIn(starts)
                 a == FirstIn(As(st))
             IN  <<[id |-> SubSeq(platformPair, st, a - 1),
                    version |-> SubSeq(platformPair, a + 1, n)]>>

\* platformPairs.forEach without the trim of each pair.
RECURSIVE platformPairsForEachNoTrim(_, _)
platformPairsForEachNoTrim(platformPairs, installed) ==
    IF platformPairs = <<>> THEN installed
    ELSE platformPairsForEachNoTrim(Tail(platformPairs),
                                    installed \o platformMatch(Head(platformPairs)))

\* platformPairs.forEach: trim each pair and push a record if it matches
RECURSIVE platformPairsForEach(_, _)
platformPairsForEach(platformPairs, installed) ==
    IF platformPairs = <<>> THEN installed
    ELSE platformPairsForEach(Tail(platformPairs),
                              installed \o platformMatch(Trim(Head(platformPairs))))

searchStr == "Installed platforms: "

\* the body of lines.forEach for one line
platformsOfLine(line, installed) ==
    IF IndexOf(line, searchStr) = 0
    THEN platformPairsForEach(
             SplitChar(SubSeq(line, Len(searchStr) + 1, Len(line)), ","), installed)
    ELSE installed

RECURSIVE platformLinesForEach(_, _)
platformLinesForEach(lines, installed) ==
    IF lines = <<>> THEN installed
    ELSE platformLinesForEach(Tail(lines), platformsOfLine(Head(lines), installed))

\* the `then` callback of getPlatforms
getPlatformsParse(output) ==
    [done |-> TRUE, platforms |-> platformLinesForEach(SplitChar(output, "\n"), <<>>)]

MaxPlatforms == 2

PlatformIds == {"android", "ios"}

PlatformVersions == {"6.0.0"}

Padding == {"", " "}

\* An entry of the installed list as printed: `<id> <version>`, with or
\* without whitespace around it.
PlatformListEntries ==
    [id : PlatformIds, version : PlatformVersions, padLeft : Padding, padRight : Padding]

FormatEntry(e) == e.padLeft \o e.id \o " " \o e.version \o e.padRight

FormatInstalled(entries) ==
    "Installed platforms: " \o
    Join([k \in 1..Len(entries) |-> FormatEntry(entries[k])], ",")

OtherPlatformLines ==
    {"Available platforms: amazon-fireos, blackberry10 1", "",
     " Installed platforms: wp8 3.0.0"}

PlatformLines ==
    {[kind |-> "installed", entries |-> es, text |-> FormatInstalled(es)] :
        es \in SeqsUpTo(PlatformListEntries, MaxPlatforms)}

PlatformTextLines ==
    {[kind |-> "text", entries |-> <<>>, text |-> t] : t \in OtherPlatformLines}

\* The tool prints at most one installed list, with or without a line of
\* other text before it and after it.
InitPlatforms ==
    /\ CmdIdle
    /\ ProcIdle
    /\ parseOp = "getPlatforms"
    /\ \E before \in Optional(PlatformTextLines), list \in Optional(PlatformLines),
          after \in Optional(PlatformTextLines) :
            srcLines = before \o list \o after
    /\ toolOutput = PrintLines(TextOf(srcLines))
    /\ parsed = NotParsed

getPlatforms ==
    /\ parseOp = "getPlatforms"
    /\ ~parsed.done
    /\ parsed' = getPlatformsParse(toolOutput)
    /\ UNCHANGED <<cmdVars, procVars, parseOp, srcLines, toolOutput>>

NextPlatforms == getPlatforms

SpecPlatforms == InitPlatforms /\ [][NextPlatforms]_vars

RECURSIVE PrintedPlatforms(_)
PrintedPlatforms(lines) ==
    IF lines = <<>> THEN <<>>
    ELSE [k \in 1..Len(Head(lines).entries) |->
             [id |-> Head(lines).entries[k].id,
              version |-> Head(lines).entries[k].version]]
         \o PrintedPlatforms(Tail(lines))

\* C8: getPlatforms returns one {id, version} record per entry of the
\* 'Installed platforms: ' line, in the order of the entries and without the
\* whitespace around an entry; other lines contribute no record, and output
\* without such a line yields the empty sequence.
C8_OneRecordPerInstalledEntry ==
    (parsed.done /\ parseOp = "getPlatforms") =>
        parsed.platforms = PrintedPlatforms(srcLines)

\* C8 witness: two padded entries between two other lines were read as two
\* records, in order.
C8_Witness ==
    /\ parsed.done
    /\ parseOp = "getPlatforms"
    /\ Len(srcLines) = 3
    /\ srcLines[2].kind = "installed"
    /\ srcLines[2].text = "Installed platforms: android 6.0.0, ios 6.0.0 "
    /\ parsed.platforms = <<[id |-> "android", version |-> "6.0.0"],
                            [id |-> "ios", version |-> "6.0.0"]>>

(***************************************************************************)
(* Spec: promises and child-process events.                                *)
(*                                                                         *)
(* Each call owns a Q deferred (`result`), the ChildProcess it spawned and *)
(* the closure variable outBuffer.  The host owns the subprocess: what it  *)
(* has written to its standard output (`produced`), what of that is still  *)
(* in the pipe (`piped`), and how it ended.  Node emits 'error' when the   *)
(* spawn fails and then no 'exit'; otherwise it emits 'exit' when the      *)
(* process ends, and 'data' for each chunk in the pipe, before or after    *)
(* 'exit'.  The command line of a call is the subject of SpecCmd.          *)
(***************************************************************************)
MaxChunks == 2

MaxExitCode == 1

\* The `code` argument of 'exit' when a signal ended the process: null.
Null == -1

CallIds == {"c1", "c2"}

Dirs == {"app", "demo"}

ExitCodes == (0..MaxExitCode) \cup {Null}

\* The k-th chunk the subprocess of call c writes; no two calls share one.
ChunkText(c, k) == CharAt(IF c = "c1" THEN "abcdefgh" ELSE "stuvwxyz", k)

\* Values a promise settles with.
Value(tag, path, code, output) ==
    [tag |-> tag, path |-> path, code |-> code, output |-> output]

NoValue == Value("none", "", 0, "")

\* new CordovaProject(directoryName)
Handle(path) == Value("CordovaProject", path, 0, "")

NotACordovaApp == Value("The selected path is not a Cordova application.", "", 0, "")

\* the Error object the 'error' event carries
SpawnError == Value("Error: spawn cordova ENOENT", "", 0, "")

\* { error: code, output: outBuffer }
CreationFailed(code, output) == Value("{error, output}", "", code, output)

\* { output: outBuffer, statusCode: code }
ActionResult(output, statusCode) == Value("{output, statusCode}", "", statusCode, output)

Text(output) == Value("string", "", 0, output)

\* Q.defer(): a deferred settles once; later calls of resolve and reject
\* return without effect.
Pending == [state |-> "pending", value |-> NoValue]

DeferResolve(d, v) ==
    IF d.state = "pending" THEN [state |-> "fulfilled", value |-> v] ELSE d

DeferReject(d, r) ==
    IF d.state = "pending" THEN [state |-> "rejected", value |-> r] ELSE d

\* path.join(a, b), normalized: a leading '.' segment is dropped.
pathJoin(a, b) == IF a = "." THEN b ELSE a \o "/" \o b

NewCall ==
    [kind |-> "idle",        \* the method called: open, create, void, string
     arg |-> "",             \* directoryName of open, name of create
     result |-> Pending,     \* the deferred of create / wrapVoidAction / wrapStringAction
     opened |-> Pending,     \* the deferred of CordovaProject.open
     openDir |-> "",         \* the directoryName CordovaProject.open was called with
     statPath |-> "",        \* the path handed to fs.stat
     stat |-> "none",        \* fs.stat: none, pending, done
     statErr |-> FALSE,      \* whether fs.stat reported an error
     settleCalls |-> 0,      \* how often the stat callback called reject or resolve
     delivered |-> FALSE,    \* create: the callbacks of open(dir).then have run
     child |-> "none",       \* the subprocess: none, spawned, failed, exited
     produced |-> "",        \* all the subprocess wrote to stdout
     piped |-> "",           \* written and not yet delivered by a 'data' event
     outBuffer |-> "",       \* the closure variable of the call
     dataEvents |-> 0,       \* 'data' events delivered
     dataAtExit |-> 0,       \* 'data' events delivered before 'exit'
     exitCode |-> 0,         \* the code 'exit' carried
     threw |-> FALSE]        \* a handler threw

Init ==
    /\ handlePath = "/proj/app"
    /\ hostWindows = FALSE
    /\ lastCall = NoCall
    /\ spawned = NoSpawn
    /\ ParseIdle
    /\ calls = [c \in CallIds |-> NewCall]

\* CordovaProject.open up to the return: fs.stat is under way.
openStart(call, directoryName) ==
    [call EXCEPT !.opened = Pending, !.openDir = directoryName,
                 !.statPath = pathJoin(directoryName, "config.xml"),
                 !.stat = "pending"]

\* The callback of fs.stat without the reject on an error.
openStatCallbackNoReject(call, err) ==
    [call EXCEPT !.opened = DeferResolve(call.opened, Handle(call.openDir)),
                 !.stat = "done", !.statErr = err, !.settleCalls = 1]

\* the callback of fs.stat in CordovaProject.open
openStatCallback(call, err) ==
    LET d1 == IF err THEN DeferReject(call.opened, NotACordovaApp) ELSE call.opened
        d2 == DeferResolve(d1, Handle(call.openDir))
    IN  [call EXCEPT !.opened = d2, !.stat = "done", !.statErr = err,
                     !.settleCalls = IF err THEN 2 ELSE 1]

\* child.on('error', ...) of create, wrapVoidAction and wrapStringAction
onError(call) == [call EXCEPT !.result = DeferReject(call.result, SpawnError)]

\* child.stdout.on('data', ...) of create, wrapVoidAction and wrapStringAction
onData(call, text) == [call EXCEPT !.outBuffer = call.outBuffer \o text]

\* The 'exit' handler of create opening the directory whatever the code.
createOnExitAlwaysOpens(call, code) == openStart(call, pathJoin(".", call.arg))

\* child.on('exit', ...) of create
createOnExit(call, code) ==
    IF code = 0
    THEN openStart(call, pathJoin(".", call.arg))
    ELSE [call EXCEPT !.result =
              DeferReject(call.result, CreationFailed(code, call.outBuffer))]

\* the callbacks create hands to CordovaProject.open(dir).then
createOpenThen(call) ==
    [call EXCEPT !.delivered = TRUE,
                 !.result = IF call.opened.state = "fulfilled"
                            THEN DeferResolve(call.result, call.opened.value)
                            ELSE DeferReject(call.result, call.opened.value)]

\* The 'exit' handler of wrapVoidAction with statusCode 0 in both branches.
voidOnExitStatusZero(call, code) ==
    [call EXCEPT !.result = DeferResolve(call.result, ActionResult(call.outBuffer, 0))]

\* child.on('exit', function(code, signal) ...) of wrapVoidAction
voidOnExit(call, code) ==
    IF code = 0
    THEN [call EXCEPT !.result = DeferResolve(call.result, ActionResult(call.outBuffer, 0))]
    ELSE [call EXCEPT !.result = DeferResolve(call.result, ActionResult(call.outBuffer, code))]

\* child.on('exit', function(e) ...) of wrapStringAction: e is the exit code
\* and `e.code` is undefined for a number, but a TypeError when e is null.
stringOnExit(call, e) ==
    IF e = Null
    THEN [call EXCEPT !.threw = TRUE]
    ELSE [call EXCEPT !.result = DeferResolve(call.result, Text(call.outBuffer))]

----
\* CordovaProject.open(directoryName)
open(c) ==
    \E directoryName \in Dirs :
        /\ calls[c].kind = "idle"
        /\ calls' = [calls EXCEPT ![c] =
               openStart([@ EXCEPT !.kind = "open", !.arg = directoryName], directoryName)]
        /\ UNCHANGED <<cmdVars, parseVars>>

\* fs.stat calls back, with or without an error
statCallback(c) ==
    \E err \in BOOLEAN :
        /\ calls[c].stat = "pending"
        /\ calls' = [calls EXCEPT ![c] = openStatCallback(@, err)]
        /\ UNCHANGED <<cmdVars, parseVars>>

\* the call has spawned its subprocess and returned its promise
Spawned(call, kind, arg) == [call EXCEPT !.kind = kind, !.arg = arg, !.child = "spawned"]

\* CordovaProject.create(name) up to the return
create(c) ==
    \E name \in Dirs :
        /\ calls[c].kind = "idle"
        /\ calls' = [calls EXCEPT ![c] = Spawned(@, "create", name)]
        /\ UNCHANGED <<cmdVars, parseVars>>

\* wrapVoidAction(commandLine, workingDirectory) up to the return
wrapVoidAction(c) ==
    /\ calls[c].kind = "idle"
    /\ calls' = [calls EXCEPT ![c] = Spawned(@, "void", "")]
    /\ UNCHANGED <<cmdVars, parseVars>>

\* wrapStringAction(commandLine, workingDirectory) up to the return
wrapStringAction(c) ==
    /\ calls[c].kind = "idle"
    /\ calls' = [calls EXCEPT ![c] = Spawned(@, "string", "")]
    /\ UNCHANGED <<cmdVars, parseVars>>

\* the subprocess writes a chunk to its standard output
childWrite(c) ==
    /\ calls[c].child = "spawned"
    /\ Len(calls[c].produced) < MaxChunks
    /\ LET text == ChunkText(c, Len(calls[c].produced) + 1)
       IN  calls' = [calls EXCEPT ![c] = [@ EXCEPT !.produced = @ \o text,
                                                  !.piped = @ \o text]]
    /\ UNCHANGED <<cmdVars, parseVars>>

\* 'data' on child.stdout: the oldest chunk of the pipe, before or after 'exit'
stdoutData(c) ==
    /\ calls[c].child \in {"spawned", "exited"}
    /\ calls[c].piped # ""
    /\ calls' = [calls EXCEPT ![c] =
           [onData(@, Head(@.piped)) EXCEPT !.piped = Tail(calls[c].piped),
                                            !.dataEvents = calls[c].dataEvents + 1]]
    /\ UNCHANGED <<cmdVars, parseVars>>

\* 'error' on the child: the spawn failed, the subprocess never ran
childError(c) ==
    /\ calls[c].child = "spawned"
    /\ calls[c].produced = ""
    /\ calls' = [calls EXCEPT ![c] = [onError(@) EXCEPT !.child = "failed"]]
    /\ UNCHANGED <<cmdVars, parseVars>>

\* 'exit' on the child: the subprocess ended with a code, or by a signal
childExit(c) ==
    \E code \in ExitCodes :
        /\ calls[c].child = "spawned"
        /\ LET ended == [calls[c] EXCEPT !.child = "exited", !.exitCode = code,
                                         !.dataAtExit = calls[c].dataEvents]
           IN  calls' = [calls EXCEPT ![c] =
                   CASE ended.kind = "create" -> createOnExit(ended, code)
                     [] ended.kind = "void" -> voidOnExit(ended, code)
                     [] OTHER -> stringOnExit(ended, code)]
        /\ UNCHANGED <<cmdVars, parseVars>>

\* the promise of open(dir) is settled and create's callbacks run
openThen(c) ==
    /\ calls[c].kind = "create"
    /\ calls[c].stat = "done"
    /\ ~calls[c].delivered
    /\ calls' = [calls EXCEPT ![c] = createOpenThen(@)]
    /\ UNCHANGED <<cmdVars, parseVars>>

Next ==
    \E c \in CallIds :
        \/ open(c)
        \/ statCallback(c)
        \/ create(c)
        \/ wrapVoidAction(c)
        \/ wrapStringAction(c)
        \/ childWrite(c)
        \/ stdoutData(c)
        \/ childError(c)
        \/ childExit(c)
        \/ openThen(c)

Spec == Init /\ [][Next]_vars

\* What 'data' events had delivered when 'exit' arrived.
OutputAtExit(call) == SubSeq(call.produced, 1, call.dataAtExit)

Rejected(r) == [state |-> "rejected", value |-> r]

Fulfilled(v) == [state |-> "fulfilled", value |-> v]

\* C1: the promise of open(directoryPath) stays pending until fs.stat calls
\* back; from then on it is rejected with the not-a-Cordova-application
\* reason if the stat of <directoryPath>/config.xml reported an error, and
\* fulfilled with a handle bound to directoryPath if it did not.
C1_OpenOneOutcome ==
    \A c \in CallIds :
        calls[c].kind = "open" =>
            /\ calls[c].statPath = calls[c].arg \o "/config.xml"
            /\ calls[c].stat = "pending" => calls[c].opened = Pending
            /\ (calls[c].stat = "done" /\ calls[c].statErr) =>
                   calls[c].opened = Rejected(NotACordovaApp)
            /\ (calls[c].stat = "done" /\ ~calls[c].statErr) =>
                   calls[c].opened = Fulfilled(Handle(calls[c].arg))

\* C1 witness: the stat failed, the callback called reject and then
\* resolve, and the promise of open is rejected.
C1_Witness ==
    \E c \in CallIds :
        /\ calls[c].kind = "open"
        /\ calls[c].stat = "done"
        /\ calls[c].statErr
        /\ calls[c].settleCalls = 2
        /\ calls[c].opened.state = "rejected"

\* C2: the promise of create(name) is rejected with the spawn error if the
\* spawn failed; rejected with the exit code and the output captured up to
\* the exit if the subprocess ended with anything but 0; and after exit code
\* 0 it takes the outcome of open('./<name>'): the handle of <name>, or the
\* not-a-Cordova-application reason.
C2_CreateOutcome ==
    \A c \in CallIds :
        calls[c].kind = "create" =>
            LET call == calls[c]
            IN  /\ call.child = "spawned" => call.result = Pending
                /\ call.child = "failed" => call.result = Rejected(SpawnError)
                /\ (call.child = "exited" /\ call.exitCode # 0) =>
                       call.result =
                           Rejected(CreationFailed(call.exitCode, OutputAtExit(call)))
                /\ (call.child = "exited" /\ call.exitCode = 0) =>
                       /\ call.statPath = call.arg \o "/config.xml"
                       /\ ~call.delivered => call.result = Pending
                       /\ (call.delivered /\ call.statErr) =>
                              call.result = Rejected(NotACordovaApp)
                       /\ (call.delivered /\ ~call.statErr) =>
                              call.result = Fulfilled(Handle(call.arg))
                /\ call.result.value.tag = "CordovaProject" =>
                       (call.child = "exited" /\ call.exitCode = 0)

\* C2 witness: a create was rejected with exit code 1 and the one chunk
\* delivered before the exit, while the subprocess had written two.
C2_Witness ==
    \E c \in CallIds :
        /\ calls[c].kind = "create"
        /\ calls[c].child = "exited"
        /\ calls[c].exitCode = 1
        /\ Len(calls[c].produced) = 2
        /\ calls[c].result = Rejected(CreationFailed(1, ChunkText(c, 1)))

\* C3: the promise of a void action is pending while the subprocess runs,
\* fulfilled once it exits, whatever the exit code, with that code as
\* statusCode and the output delivered up to the exit, and rejected only
\* when the spawn failed, then with the spawn error.
C3_VoidResolvesOnExit ==
    \A c \in CallIds :
        calls[c].kind = "void" =>
            LET call == calls[c]
            IN  /\ call.child = "spawned" => call.result = Pending
                /\ call.child = "exited" =>
                       call.result =
                           Fulfilled(ActionResult(OutputAtExit(call), call.exitCode))
                /\ call.child = "failed" => call.result = Rejected(SpawnError)
                /\ call.result.state = "rejected" => call.child = "failed"

\* C3 witness: a void action was fulfilled with a nonzero statusCode.
C3_Witness ==
    \E c \in CallIds :
        /\ calls[c].kind = "void"
        /\ calls[c].child = "exited"
        /\ calls[c].exitCode = 1
        /\ calls[c].result.state = "fulfilled"
        /\ calls[c].result.value.code = 1
        /\ calls[c].result.value.output # ""

\* C4: once the subprocess of a string action has exited, with code 0, with
\* a nonzero code or by a signal (no code), the promise is fulfilled with
\* the output accumulated up to the exit.
C4_StringAlwaysResolves ==
    \A c \in CallIds :
        (calls[c].kind = "string" /\ calls[c].child = "exited") =>
            calls[c].result = Fulfilled(Text(OutputAtExit(calls[c])))

\* C10: the output a void or string action delivers is all the subprocess
\* wrote to its standard output, in order, whether the 'data' event of a
\* chunk came before or after 'exit'.
C10_AllChunksDelivered ==
    \A c \in CallIds :
        (/\ calls[c].kind \in {"void", "string"}
         /\ calls[c].result.state = "fulfilled"
         /\ calls[c].piped = "") =>
            calls[c].result.value.output = calls[c].produced

====
